---- MODULE Spec2Model ----
(***************************************************************************)
(* Model of the gros_client_js robot client: the streaming transport of    *)
(* RobotBase (websocket_send with its shared retry counter), the limit     *)
(* cache filled by the constructor of Human / Motor, and the joint         *)
(* dispatcher move_joint with its readiness gate.                          *)
(*                                                                         *)
(* The program is single threaded: every action below is one run of one    *)
(* handler of the event loop (an API call made by the application, a       *)
(* timer callback, a promise callback of the limit fetch, or a lifecycle   *)
(* signal of the WebSocket).                                               *)
(*                                                                         *)
(* Timers carry the delay they were created with.  Between two pending     *)
(* timers the one created first fires first whenever its delay is not the  *)
(* larger one; a timer with a larger delay created earlier and a timer     *)
(* with a smaller delay created later may fire in either order.            *)
(***************************************************************************)
EXTENDS Integers, Sequences, FiniteSets, TLC

(***************************************************************************)
(* Bounds of the model.  Spec explores the interleavings of several sends  *)
(* and dispatches over a small input domain; JoinSpec explores a single    *)
(* dispatch and a single send over a wide input domain.                    *)
(***************************************************************************)
MaxMsgs == 2        \* Spec: messages handed to websocket_send
MaxCalls == 2       \* Spec: move_joint calls made by the application
MaxBatch == 2       \* JoinSpec: targets in one move_joint batch
MaxLimits == 2      \* JoinSpec: records in a fetched limit table
MaxAbs == 2         \* ClampSpec: thresholds of cover_param range over -MaxAbs..MaxAbs
MaxReqs == 2        \* CtlSpec: http_request calls made by the application
MaxListeners == 2   \* EventSpec: listeners added by the application
MaxDelivered == 3   \* EventSpec: listener calls made before a further message

(***************************************************************************)
(* Program constants.                                                      *)
(***************************************************************************)
MaxRetry == 5
RetryDelay == 1000
GateDelay == 500
HttpTimeoutMs == 5000

(***************************************************************************)
(* JavaScript numbers as they reach cover_param: a number, NaN, or a       *)
(* missing value (undefined).                                              *)
(***************************************************************************)
Num(n) == [kind |-> "number", v |-> n]
NaN == [kind |-> "NaN", v |-> 0]
Undef == [kind |-> "undefined", v |-> 0]

\* value > threshold and value < threshold of JavaScript: false when the
\* value is NaN.
JsGt(a, n) == a.kind = "number" /\ a.v > n
JsLt(a, n) == a.kind = "number" /\ a.v < n

\* parseInt(string) of JavaScript; a string is the sequence of its
\* characters.  Leading blanks are skipped, a sign is taken, then the digits
\* up to the first other character; NaN when there is no digit.
Digits == <<"0", "1", "2", "3", "4", "5", "6", "7", "8", "9">>
IsDigit(ch) == \E d \in 1..10 : Digits[d] = ch
DigitValue(ch) == (CHOOSE d \in 1..10 : Digits[d] = ch) - 1

RECURSIVE SkipBlanks(_)
SkipBlanks(str) ==
    IF Len(str) > 0 /\ str[1] = " " THEN SkipBlanks(Tail(str)) ELSE str

RECURSIVE DigitsPrefix(_, _)
DigitsPrefix(str, acc) ==
    IF Len(str) > 0 /\ IsDigit(str[1])
    THEN DigitsPrefix(Tail(str), 10 * acc + DigitValue(str[1]))
    ELSE acc

parseInt(string) ==
    LET str == SkipBlanks(string)
        signed == Len(str) > 0 /\ str[1] \in {"-", "+"}
        rest == IF signed THEN Tail(str) ELSE str
    IN  IF Len(rest) = 0 \/ ~IsDigit(rest[1]) THEN NaN
        ELSE IF signed /\ str[1] = "-" THEN Num(0 - DigitsPrefix(rest, 0))
        ELSE Num(DigitsPrefix(rest, 0))

\* Variant: a missing value is not replaced by 0.
cover_param_nodefault(value, minThreshold, maxThreshold) ==
    LET v2 == IF JsGt(value, maxThreshold) THEN Num(maxThreshold) ELSE value
    IN  IF JsLt(v2, minThreshold) THEN Num(minThreshold) ELSE v2

cover_param(value, minThreshold, maxThreshold) ==
    LET v1 == IF value.kind = "undefined" THEN Num(0) ELSE value
        v2 == IF JsGt(v1, maxThreshold) THEN Num(maxThreshold) ELSE v1
    IN  IF JsLt(v2, minThreshold) THEN Num(minThreshold) ELSE v2

(***************************************************************************)
(* Input domains.                                                          *)
(***************************************************************************)
Motor(no, orientation, angle) ==
    [no |-> no, orientation |-> orientation, angle |-> angle]

Limit(no, orientation, lo, hi) ==
    [no |-> no, orientation |-> orientation,
     min_angle |-> lo, max_angle |-> hi, ip |-> "x"]

SeqsUpTo(S, n) == UNION {[1..k -> S] : k \in 0..n}

\* JoinSpec: every batch and every limit table up to the bounds.
Angles == {Undef, NaN, Num(-20), Num(7), Num(20)}
Targets ==
    {Motor("1", "left", a) : a \in Angles}
        \cup {Motor("99", "left", Num(20)), Motor("1", "right", Num(20))}
LimitRecords ==
    {Limit("1", "left", -10, 10), Limit("1", "left", 5, 15),
     Limit("99", "right", -10, 10)}
Batches == SeqsUpTo(Targets, MaxBatch)
Tables == SeqsUpTo(LimitRecords, MaxLimits)

\* Spec: a matched target above its range, an unmatched one, and the
\* batches made of them; an empty and a one-record limit table.
CoreBatches ==
    {<<Motor("1", "left", Num(20))>>,
     <<Motor("99", "left", Num(20))>>,
     <<Motor("1", "left", Num(20)), Motor("99", "left", Num(20))>>}
CoreTables == {<< >>, <<Limit("1", "left", -10, 10)>>}
CoreWalkAngles == {Num(50)}
CoreWalkSpeeds == {Num(3)}

\* ClampSpec: the thresholds and values given to cover_param, values one
\* step beyond the widest range included; walk and move_joint called with
\* missing, out-of-range and in-range numbers, against a range around 0,
\* one above 0 and one below 0.
ClampRange == (0 - MaxAbs)..MaxAbs
ClampValues == {Undef, NaN} \cup {Num(n) : n \in (0 - MaxAbs - 1)..(MaxAbs + 1)}
ClampWalkAngles == {Undef, Num(-50), Num(7), Num(50)}
ClampWalkSpeeds == {Undef, Num(3), Num(9)}
ClampBatches ==
    {<<Motor("1", "left", a)>> : a \in {Undef, Num(-20), Num(7), Num(20)}}
ClampTables ==
    {<<Limit("1", "left", -10, 10)>>, <<Limit("1", "left", 5, 15)>>,
     <<Limit("1", "left", -15, -5)>>}

VARIABLES
    ws_state,       \* state of this.ws: "NoSocket" when the constructor caught
    retry_count,    \* RobotBase.retry_count
    motor_limits,   \* Human.motor_limits, the limit cache
    fetch,          \* the constructor's get_motor_limit_list promise and the
                    \* table (res.data.data) it was resolved with
    timers,         \* pending setTimeout callbacks, in creation order
    msgs,           \* every message handed to websocket_send, with its history
    wire,           \* ids of the messages given to ws.send, in order
    calls,          \* every move_joint call of the application
    reqs,           \* every http_request made by the application, with its outcome
    probe,          \* the cover_param call made by the application, with its result
    listeners,      \* the listeners added by on_connected / on_close / on_error /
                    \* on_message, in subscription order
    delivered,      \* every call of a listener made by emit, in order
    conn,           \* the option given to the constructor, with RobotBase.wsUrl
                    \* and RobotBase.baseUrl
    camera          \* the Camera of the robot: its two fields and the state of
                    \* the camera_status request of its constructor

vars == <<ws_state, retry_count, motor_limits, fetch, timers, msgs, wire, calls,
          reqs, probe, listeners, delivered, conn, camera>>

CallIds == 1..MaxCalls

\* No cover_param call has been made by the application.
NoProbe == [called |-> FALSE, value |-> Undef, min |-> 0, max |-> 0,
            result |-> Undef]

\* The part of the state the handlers of RobotBase and Human update.
Prog == [retry_count |-> retry_count, timers |-> timers, msgs |-> msgs,
         wire |-> wire, calls |-> calls, motor_limits |-> motor_limits]

\* The handler ends in state s.
SetProg(s) ==
    \E r \in {s} :
        /\ retry_count' = r.retry_count
        /\ timers' = r.timers
        /\ msgs' = r.msgs
        /\ wire' = r.wire
        /\ calls' = r.calls
        /\ motor_limits' = r.motor_limits

Pending(s) == {m \in 1..Len(s.msgs) : s.msgs[m].status = "pending"}

(***************************************************************************)
(* RobotBase.websocket_send(message), run for message m in context ctx     *)
(* ("caller": inside the API call that issued the message, "timer": inside *)
(* a setTimeout callback).                                                 *)
(***************************************************************************)
\* Variant: the counter is not reset by a transmission.
websocket_send_noreset(s, m, ctx) ==
    IF ws_state = "Open"
    THEN [s EXCEPT !.wire = Append(@, m),
                   !.msgs[m].status = "sent"]
    ELSE IF s.retry_count = MaxRetry
    THEN [s EXCEPT !.msgs[m].status = "abandoned",
                   !.msgs[m].errCtx = ctx]
    ELSE [s EXCEPT !.retry_count = @ + 1,
                   !.msgs[m].status = "pending",
                   !.msgs[m].failed = @ + 1,
                   !.timers = Append(@, [kind |-> "retry", delay |-> RetryDelay,
                                          id |-> m])]

\* Variant: a failed attempt does not count.
websocket_send_noincr(s, m, ctx) ==
    IF ws_state = "Open"
    THEN [s EXCEPT !.wire = Append(@, m),
                   !.retry_count = 0,
                   !.msgs[m].status = "sent"]
    ELSE IF s.retry_count = MaxRetry
    THEN [s EXCEPT !.msgs[m].status = "abandoned",
                   !.msgs[m].errCtx = ctx]
    ELSE [s EXCEPT !.msgs[m].status = "pending",
                   !.msgs[m].failed = @ + 1,
                   !.timers = Append(@, [kind |-> "retry", delay |-> RetryDelay,
                                          id |-> m])]

\* Variant: a transmission goes in front of the earlier ones.
websocket_send_prepend(s, m, ctx) ==
    IF ws_state = "Open"
    THEN [s EXCEPT !.wire = <<m>> \o @,
                   !.retry_count = 0,
                   !.msgs[m].status = "sent"]
    ELSE IF s.retry_count = MaxRetry
    THEN [s EXCEPT !.msgs[m].status = "abandoned",
                   !.msgs[m].errCtx = ctx]
    ELSE [s EXCEPT !.retry_count = @ + 1,
                   !.msgs[m].status = "pending",
                   !.msgs[m].failed = @ + 1,
                   !.timers = Append(@, [kind |-> "retry", delay |-> RetryDelay,
                                          id |-> m])]

\* Variant: a failed attempt is counted and no retry is scheduled.
websocket_send_nosched(s, m, ctx) ==
    IF ws_state = "Open"
    THEN [s EXCEPT !.wire = Append(@, m),
                   !.retry_count = 0,
                   !.msgs[m].status = "sent"]
    ELSE IF s.retry_count = MaxRetry
    THEN [s EXCEPT !.msgs[m].status = "abandoned",
                   !.msgs[m].errCtx = ctx]
    ELSE [s EXCEPT !.retry_count = @ + 1,
                   !.msgs[m].status = "pending",
                   !.msgs[m].failed = @ + 1]

\* Variant: only a connecting channel holds a message back.
websocket_send_sendclosed(s, m, ctx) ==
    IF ws_state \in {"Open", "Closed", "Errored"}
    THEN [s EXCEPT !.wire = Append(@, m),
                   !.retry_count = 0,
                   !.msgs[m].status = "sent"]
    ELSE IF s.retry_count = MaxRetry
    THEN [s EXCEPT !.msgs[m].status = "abandoned",
                   !.msgs[m].errCtx = ctx]
    ELSE [s EXCEPT !.retry_count = @ + 1,
                   !.msgs[m].status = "pending",
                   !.msgs[m].failed = @ + 1,
                   !.timers = Append(@, [kind |-> "retry", delay |-> RetryDelay,
                                          id |-> m])]

\* Variant: raising the error sets the counter back to 0.
websocket_send_resetonraise(s, m, ctx) ==
    IF ws_state = "Open"
    THEN [s EXCEPT !.wire = Append(@, m),
                   !.retry_count = 0,
                   !.msgs[m].status = "sent"]
    ELSE IF s.retry_count = MaxRetry
    THEN [s EXCEPT !.retry_count = 0,
                   !.msgs[m].status = "abandoned",
                   !.msgs[m].errCtx = ctx]
    ELSE [s EXCEPT !.retry_count = @ + 1,
                   !.msgs[m].status = "pending",
                   !.msgs[m].failed = @ + 1,
                   !.timers = Append(@, [kind |-> "retry", delay |-> RetryDelay,
                                          id |-> m])]

\* Variant: the limit is tested with > instead of ==.
websocket_send_offbyone(s, m, ctx) ==
    IF ws_state = "Open"
    THEN [s EXCEPT !.wire = Append(@, m),
                   !.retry_count = 0,
                   !.msgs[m].status = "sent"]
    ELSE IF s.retry_count > MaxRetry
    THEN [s EXCEPT !.msgs[m].status = "abandoned",
                   !.msgs[m].errCtx = ctx]
    ELSE [s EXCEPT !.retry_count = @ + 1,
                   !.msgs[m].status = "pending",
                   !.msgs[m].failed = @ + 1,
                   !.timers = Append(@, [kind |-> "retry", delay |-> RetryDelay,
                                          id |-> m])]

websocket_send(s, m, ctx) ==
    IF ws_state = "Open"
    THEN [s EXCEPT !.wire = Append(@, m),
                   !.retry_count = 0,
                   !.msgs[m].status = "sent"]
    ELSE IF s.retry_count = MaxRetry
    THEN [s EXCEPT !.msgs[m].status = "abandoned",
                   !.msgs[m].errCtx = ctx]
    ELSE [s EXCEPT !.retry_count = @ + 1,
                   !.msgs[m].status = "pending",
                   !.msgs[m].failed = @ + 1,
                   !.timers = Append(@, [kind |-> "retry", delay |-> RetryDelay,
                                          id |-> m])]

\* A facade method hands a new envelope to websocket_send.
NewMsg(s, env, ctx, call) ==
    [env |-> env, call |-> call,
     openAtIssue |-> (ws_state = "Open"), pendingAtIssue |-> Pending(s),
     status |-> "new", failed |-> 0, errCtx |-> "none"]

Issue(s, env, ctx, call) ==
    websocket_send([s EXCEPT !.msgs = Append(@, NewMsg(s, env, ctx, call))],
                   Len(s.msgs) + 1, ctx)

(***************************************************************************)
(* Human.move_joint / Motor.move_joint.                                    *)
(***************************************************************************)
\* {...item1, ...item2}: the fields of the limit record are laid over the
\* fields of the target.
Merge(item1, item2) ==
    [k \in DOMAIN item1 \cup DOMAIN item2 |->
        IF k \in DOMAIN item2 THEN item2[k] ELSE item1[k]]

\* delete motor[k]
Delete(motor, k) == [f \in DOMAIN motor \ {k} |-> motor[f]]

\* motor_limits.forEach(item2 => { if (item1.no == item2.no &&
\* item1.orientation == item2.orientation) target_list.push({...item1, ...item2}) })
RECURSIVE JoinOne(_, _, _)
JoinOne(item1, limits, j) ==
    IF j > Len(limits) THEN << >>
    ELSE (IF item1.no = limits[j].no /\ item1.orientation = limits[j].orientation
          THEN <<Merge(item1, limits[j])>> ELSE << >>)
         \o JoinOne(item1, limits, j + 1)

\* motors.forEach(item1 => ...)
RECURSIVE Join(_, _, _)
Join(motors, limits, i) ==
    IF i > Len(motors) THEN << >>
    ELSE JoinOne(motors[i], limits, 1) \o Join(motors, limits, i + 1)

\* Variant: the address field of the limit record is left in the entry.
Sanitize_keepip(motor) ==
    LET clamped == [motor EXCEPT !.angle =
                        cover_param(motor.angle, motor.min_angle, motor.max_angle)]
    IN  Delete(Delete(clamped, "min_angle"), "max_angle")

\* The body of target_list.forEach: clamp, then delete the limit's fields.
Sanitize(motor) ==
    LET clamped == [motor EXCEPT !.angle =
                        cover_param(motor.angle, motor.min_angle, motor.max_angle)]
    IN  Delete(Delete(Delete(clamped, "min_angle"), "max_angle"), "ip")

\* Step 1 of move_joint: the copies {no, orientation, angle} of the targets.
Motors(args) ==
    [i \in 1..Len(args) |->
        [no |-> args[i].no, orientation |-> args[i].orientation,
         angle |-> args[i].angle]]

\* Variant: the gate returns without re-arming its timer.
move_joint_norearm(s, c, ctx) ==
    IF Len(motor_limits) = 0
    THEN SetProg([s EXCEPT !.calls[c].status = "gated"])
    ELSE \E motors \in {Motors(s.calls[c].args)} :
         \E joined \in {Join(motors, motor_limits, 1)} :
         \E target_list \in {[i \in 1..Len(joined) |-> Sanitize(joined[i])]} :
            IF Len(target_list) > 0
            THEN SetProg(Issue([s EXCEPT !.calls[c].status = "dispatched"],
                               [command |-> "move_joint", data |-> target_list],
                               ctx, c))
            ELSE SetProg([s EXCEPT !.calls[c].status = "unmatched"])

\* Variant: the envelope is sent even when target_list is empty.
move_joint_sendempty(s, c, ctx) ==
    IF Len(motor_limits) = 0
    THEN SetProg([s EXCEPT !.timers = Append(@, [kind |-> "gate",
                                                 delay |-> GateDelay, id |-> c,
                                                 args |-> s.calls[c].args]),
                           !.calls[c].status = "gated"])
    ELSE \E motors \in {Motors(s.calls[c].args)} :
         \E joined \in {Join(motors, motor_limits, 1)} :
         \E target_list \in {[i \in 1..Len(joined) |-> Sanitize(joined[i])]} :
            SetProg(Issue([s EXCEPT !.calls[c].status =
                                IF Len(target_list) > 0 THEN "dispatched"
                                ELSE "unmatched"],
                          [command |-> "move_joint", data |-> target_list],
                          ctx, c))

\* Variant: the limit record itself is pushed to target_list, so that the
\* deletes of the clamping loop act on the cache.
move_joint_editcache(s, c, ctx) ==
    IF Len(motor_limits) = 0
    THEN SetProg([s EXCEPT !.timers = Append(@, [kind |-> "gate",
                                                 delay |-> GateDelay, id |-> c,
                                                 args |-> s.calls[c].args]),
                           !.calls[c].status = "gated"])
    ELSE \E motors \in {Motors(s.calls[c].args)} :
         \E joined \in {Join(motors, motor_limits, 1)} :
         \E target_list \in {[i \in 1..Len(joined) |-> Sanitize(joined[i])]} :
            IF Len(target_list) > 0
            THEN SetProg(Issue([s EXCEPT
                                  !.calls[c].status = "dispatched",
                                  !.motor_limits =
                                      [j \in 1..Len(motor_limits) |->
                                         IF JoinOne(motor_limits[j], motors, 1) # << >>
                                         THEN Delete(Delete(Delete(motor_limits[j],
                                                  "min_angle"), "max_angle"), "ip")
                                         ELSE motor_limits[j]]],
                               [command |-> "move_joint", data |-> target_list],
                               ctx, c))
            ELSE SetProg([s EXCEPT !.calls[c].status = "unmatched"])

\* Variant: once the fetch has succeeded, an empty cache counts as loaded.
move_joint_emptyloaded(s, c, ctx) ==
    IF Len(motor_limits) = 0 /\ fetch.status # "ok"
    THEN SetProg([s EXCEPT !.timers = Append(@, [kind |-> "gate",
                                                 delay |-> GateDelay, id |-> c,
                                                 args |-> s.calls[c].args]),
                           !.calls[c].status = "gated"])
    ELSE \E motors \in {Motors(s.calls[c].args)} :
         \E joined \in {Join(motors, motor_limits, 1)} :
         \E target_list \in {[i \in 1..Len(joined) |-> Sanitize(joined[i])]} :
            IF Len(target_list) > 0
            THEN SetProg(Issue([s EXCEPT !.calls[c].status = "dispatched"],
                               [command |-> "move_joint", data |-> target_list],
                               ctx, c))
            ELSE SetProg([s EXCEPT !.calls[c].status = "unmatched"])

\* Variant: the timer runs move_joint again with the rest of the batch only.
move_joint_rearmrest(s, c, ctx) ==
    IF Len(motor_limits) = 0
    THEN SetProg([s EXCEPT !.timers = Append(@, [kind |-> "gate",
                                                 delay |-> GateDelay, id |-> c,
                                                 args |-> SubSeq(s.calls[c].args, 2,
                                                                 Len(s.calls[c].args))]),
                           !.calls[c].status = "gated"])
    ELSE \E motors \in {Motors(s.calls[c].args)} :
         \E joined \in {Join(motors, motor_limits, 1)} :
         \E target_list \in {[i \in 1..Len(joined) |-> Sanitize(joined[i])]} :
            IF Len(target_list) > 0
            THEN SetProg(Issue([s EXCEPT !.calls[c].status = "dispatched"],
                               [command |-> "move_joint", data |-> target_list],
                               ctx, c))
            ELSE SetProg([s EXCEPT !.calls[c].status = "unmatched"])

\* The body of move_joint for call c, entered in state s; the handler ends
\* in the state given to SetProg.  motors, joined and target_list are the
\* values of the code's motors, of target_list after the join, and of
\* target_list after the clamping loop.  calls[c].args is the args of the
\* running invocation, which the timer's closure keeps for the next one;
\* calls[c].supplied is what the caller passed.
move_joint(s, c, ctx) ==
    IF Len(motor_limits) = 0
    THEN SetProg([s EXCEPT !.timers = Append(@, [kind |-> "gate",
                                                 delay |-> GateDelay, id |-> c,
                                                 args |-> s.calls[c].args]),
                           !.calls[c].status = "gated"])
    ELSE \E motors \in {Motors(s.calls[c].args)} :
         \E joined \in {Join(motors, motor_limits, 1)} :
         \E target_list \in {[i \in 1..Len(joined) |-> Sanitize(joined[i])]} :
            IF Len(target_list) > 0
            THEN SetProg(Issue([s EXCEPT !.calls[c].status = "dispatched"],
                               [command |-> "move_joint", data |-> target_list],
                               ctx, c))
            ELSE SetProg([s EXCEPT !.calls[c].status = "unmatched"])

(***************************************************************************)
(* RobotBase.constructor(option): the two URLs.  A field the caller left   *)
(* out is "missing" and takes its default; a URL is kept as the parts the  *)
(* template literal puts together.                                         *)
(***************************************************************************)
NoOption == [ssl |-> "missing", host |-> "missing", port |-> "missing"]

\* const { ssl = false, host = '127.0.0.1', port = '8001' } = option ?? {}
Default(given, default) == IF given = "missing" THEN default ELSE given

Url(scheme, host, port, path) ==
    [scheme |-> scheme, host |-> host, port |-> port, path |-> path]

\* Variant: the control plane keeps the insecure scheme.
constructor_urls_httponly(option) ==
    LET ssl == Default(option.ssl, "false")
        host == Default(option.host, "127.0.0.1")
        port == Default(option.port, "8001")
    IN  IF ssl = "true"
        THEN [option |-> option,
              wsUrl |-> Url("wss", host, port, "/ws"),
              baseUrl |-> Url("http", host, port, "")]
        ELSE [option |-> option,
              wsUrl |-> Url("ws", host, port, "/ws"),
              baseUrl |-> Url("http", host, port, "")]

constructor_urls(option) ==
    LET ssl == Default(option.ssl, "false")
        host == Default(option.host, "127.0.0.1")
        port == Default(option.port, "8001")
    IN  IF ssl = "true"
        THEN [option |-> option,
              wsUrl |-> Url("wss", host, port, "/ws"),
              baseUrl |-> Url("https", host, port, "")]
        ELSE [option |-> option,
              wsUrl |-> Url("ws", host, port, "/ws"),
              baseUrl |-> Url("http", host, port, "")]

(***************************************************************************)
(* EventEmitter: this.on(event, listener) and this.emit(event).            *)
(***************************************************************************)
\* The calls emit(event) makes: one to each listener of the event, in the
\* order the listeners were added.
RECURSIVE ListenerCalls(_, _)
ListenerCalls(event, i) ==
    IF i > Len(listeners) THEN << >>
    ELSE (IF listeners[i].event = event
          THEN <<[event |-> event, listener |-> listeners[i].id]>> ELSE << >>)
         \o ListenerCalls(event, i + 1)

\* Variant: only the listener added first is called.
emit_first(event) ==
    LET made == ListenerCalls(event, 1)
    IN  IF Len(made) = 0 THEN delivered ELSE Append(delivered, made[1])

emit(event) == delivered \o ListenerCalls(event, 1)

\* Variant: a listener added to an open channel is called for the open.
on_replay(event) ==
    /\ Len(listeners) < MaxListeners
    /\ listeners' = Append(listeners, [event |-> event, id |-> Len(listeners) + 1,
                                       addedIn |-> ws_state])
    /\ delivered' = IF event = "open" /\ ws_state = "Open"
                    THEN Append(delivered, [event |-> "open",
                                            listener |-> Len(listeners) + 1])
                    ELSE delivered
    /\ UNCHANGED <<ws_state, retry_count, motor_limits, fetch, timers, msgs, wire,
                   calls, reqs, probe, conn, camera>>

\* this.on(event, listener); addedIn is the state of the channel at that
\* moment, kept for the properties.
on(event) ==
    /\ Len(listeners) < MaxListeners
    /\ listeners' = Append(listeners, [event |-> event, id |-> Len(listeners) + 1,
                                       addedIn |-> ws_state])
    /\ UNCHANGED <<ws_state, retry_count, motor_limits, fetch, timers, msgs, wire,
                   calls, reqs, probe, delivered, conn,
                   camera>>

(***************************************************************************)
(* RobotBase.http_request(config): the request handed to axios.request is  *)
(* {timeout: 5000, baseURL: this.baseUrl, ...config}.  A timeout of 0 is   *)
(* axios' "no timeout".                                                    *)
(***************************************************************************)
\* Variant: the request is made without a timeout.
http_request_notimeout(config) ==
    Merge([timeout |-> 0, baseURL |-> conn.baseUrl], config)

http_request(config) ==
    Merge([timeout |-> HttpTimeoutMs, baseURL |-> conn.baseUrl], config)

\* The configs facade methods pass: those of stand() and start().
Facades ==
    {[method |-> "POST", url |-> "/robot/stand"],
     [method |-> "POST", url |-> "/robot/start"]}

\* Variant: a failed exchange is made again instead of being reported.
http_rejected_retry(r, error) == [r EXCEPT !.exchanges = @ + 1]

\* The promise of axios.request rejects; http_request returns that promise,
\* so the caller of the facade method gets the rejection.
http_rejected(r, error) ==
    [r EXCEPT !.status = "rejected", !.error = error, !.settledFor = "caller"]

\* The promise resolves with the response.
http_resolved(r) == [r EXCEPT !.status = "resolved", !.settledFor = "caller"]

\* The promise returned by the async function move_joint for call c: the
\* body runs to its end inside the call, so the promise is settled when the
\* call returns; it is rejected when websocket_send threw inside the call.
move_joint_promise(c) ==
    IF \E m \in 1..Len(msgs) : msgs[m].call = c /\ msgs[m].errCtx = "caller"
    THEN "rejected" ELSE "resolved"

(***************************************************************************)
(* Timers.                                                                 *)
(***************************************************************************)
RemoveAt(q, i) == [j \in 1..(Len(q) - 1) |-> IF j < i THEN q[j] ELSE q[j + 1]]

\* Timer i may fire: no timer created before it is due before it.
CanFire(i) == \A j \in 1..(i - 1) : timers[j].delay > timers[i].delay

(***************************************************************************)
(* Camera.  videoStreamUrl is a URL or UndefinedUrl, the field never       *)
(* assigned; videoStreamStatus is "true", "false" or, when the response    *)
(* has no data field, "undefined".                                         *)
(***************************************************************************)
UndefinedUrl == Url("undefined", "undefined", "undefined", "undefined")
StatusValues == {"true", "false", "undefined"}

\* if (this.videoStreamStatus)
Truthy(value) == value = "true"

\* new Camera(baseurl): the fields as declared, the request in flight.
Camera(baseurl) ==
    [videoStreamUrl |-> UndefinedUrl, videoStreamStatus |-> "false",
     request |-> "pending", baseurl |-> baseurl]

\* Variant: the stream URL is set whatever the status.
camera_then_alwaysurl(cam, data) ==
    [cam EXCEPT !.videoStreamStatus = data,
                !.videoStreamUrl = [cam.baseurl EXCEPT !.path = "/control/camera"],
                !.request = "resolved"]

\* .then(response => ...) with response.data.data = data
camera_then(cam, data) ==
    IF Truthy(data)
    THEN [cam EXCEPT !.videoStreamStatus = data,
                     !.videoStreamUrl =
                         [cam.baseurl EXCEPT !.path = "/control/camera"],
                     !.request = "resolved"]
    ELSE [cam EXCEPT !.videoStreamStatus = data, !.request = "resolved"]

\* .catch(err => console.error(...))
camera_catch(cam) == [cam EXCEPT !.request = "rejected"]

(***************************************************************************)
(* Initial state: the constructor of Human has returned.  The WebSocket is *)
(* connecting (or could not be created), the limit fetch is in flight and  *)
(* the cache is empty.                                                     *)
(***************************************************************************)
InitWith(option) ==
    /\ ws_state \in {"Connecting", "NoSocket"}
    /\ retry_count = 0
    /\ motor_limits = << >>
    /\ fetch = [status |-> "pending", data |-> << >>]
    /\ timers = << >>
    /\ msgs = << >>
    /\ wire = << >>
    /\ calls = << >>
    /\ reqs = << >>
    /\ probe = NoProbe
    /\ listeners = << >>
    /\ delivered = << >>
    /\ conn = constructor_urls(option)
    /\ camera = Camera(conn.baseUrl)

\* new Human(): no option is given.
Init == InitWith(NoOption)

(***************************************************************************)
(* Actions.                                                                *)
(***************************************************************************)
\* Variant: the response is received and the cache is not assigned.
FetchOkFrom_drop(tables) ==
    /\ fetch.status = "pending"
    /\ \E table \in tables : fetch' = [status |-> "ok", data |-> table]
    /\ UNCHANGED <<ws_state, retry_count, motor_limits, timers, msgs, wire, calls,
                   reqs, probe, listeners, delivered, conn,
                   camera>>

\* .then(res => this.motor_limits = res.data.data)
FetchOkFrom(tables) ==
    /\ fetch.status = "pending"
    /\ \E table \in tables : fetch' = [status |-> "ok", data |-> table]
    /\ motor_limits' = fetch'.data
    /\ UNCHANGED <<ws_state, retry_count, timers, msgs, wire, calls, reqs, probe,
                   listeners, delivered, conn,
                   camera>>

\* .catch(error => console.log(error))
FetchFail ==
    /\ fetch.status = "pending"
    /\ fetch' = [fetch EXCEPT !.status = "failed"]
    /\ UNCHANGED <<ws_state, retry_count, motor_limits, timers, msgs, wire, calls,
                   reqs, probe, listeners, delivered, conn,
                   camera>>

\* Variant: the cache is invalidated when the channel opens.
WsOpen_invalidate ==
    /\ ws_state = "Connecting"
    /\ ws_state' = "Open"
    /\ motor_limits' = << >>
    /\ delivered' = emit("open")
    /\ UNCHANGED <<retry_count, fetch, timers, msgs, wire, calls, reqs, probe,
                   listeners, conn,
                   camera>>

\* ws.onopen: this.emit('open')
WsOpen ==
    /\ ws_state = "Connecting"
    /\ ws_state' = "Open"
    /\ delivered' = emit("open")
    /\ UNCHANGED <<retry_count, motor_limits, fetch, timers, msgs, wire, calls,
                   reqs, probe, listeners, conn,
                   camera>>

\* Variant: the close handler opens the connection again.
WsClose_reconnect ==
    /\ ws_state \in {"Connecting", "Open"}
    /\ ws_state' = "Connecting"
    /\ delivered' = emit("close")
    /\ UNCHANGED <<retry_count, motor_limits, fetch, timers, msgs, wire, calls,
                   reqs, probe, listeners, conn,
                   camera>>

\* ws.onclose: this.emit('close')
WsClose ==
    /\ ws_state \in {"Connecting", "Open"}
    /\ ws_state' = "Closed"
    /\ delivered' = emit("close")
    /\ UNCHANGED <<retry_count, motor_limits, fetch, timers, msgs, wire, calls,
                   reqs, probe, listeners, conn,
                   camera>>

\* ws.onerror: this.emit('error', event)
WsError ==
    /\ ws_state \in {"Connecting", "Open"}
    /\ ws_state' = "Errored"
    /\ delivered' = emit("error")
    /\ UNCHANGED <<retry_count, motor_limits, fetch, timers, msgs, wire, calls,
                   reqs, probe, listeners, conn,
                   camera>>

\* ws.onmessage: this.emit('message', message)
WsMessage ==
    /\ ws_state = "Open"
    /\ Len(delivered) < MaxDelivered
    /\ delivered' = emit("message")
    /\ UNCHANGED <<ws_state, retry_count, motor_limits, fetch, timers, msgs, wire,
                   calls, reqs, probe, listeners, conn,
                   camera>>

\* The robot answers GET /control/camera_status.
CameraRespond ==
    /\ camera.request = "pending"
    /\ \E data \in StatusValues : camera' = camera_then(camera, data)
    /\ UNCHANGED <<ws_state, retry_count, motor_limits, fetch, timers, msgs, wire,
                   calls, reqs, probe, listeners, delivered, conn>>

\* The camera_status request fails.
CameraFail ==
    /\ camera.request = "pending"
    /\ camera' = camera_catch(camera)
    /\ UNCHANGED <<ws_state, retry_count, motor_limits, fetch, timers, msgs, wire,
                   calls, reqs, probe, listeners, delivered, conn>>

on_connected == on("open")
on_close == on("close")
on_error == on("error")
on_message == on("message")

\* Sends and gated dispatches so far: each may still need a message id.
Load == Len(msgs) + Cardinality({c \in 1..Len(calls) : calls[c].status = "gated"})

\* Human.walk(angle, speed); the speed range is in tenths.
WalkFrom(angles, speeds, maxMsgs) ==
    /\ Load < maxMsgs
    /\ \E angle \in angles, speed \in speeds :
          SetProg(Issue(Prog,
                        [command |-> "move",
                         data |-> [angle |-> cover_param(angle, -45, 45),
                                   speed |-> cover_param(speed, -8, 8)]],
                        "caller", 0))
    /\ UNCHANGED <<ws_state, fetch, reqs, probe, listeners, delivered,
                   conn,
                   camera>>

\* Human.head(roll, pitch, yaw); the range is in 1/10000 of a degree.
HeadFrom(values, maxMsgs) ==
    /\ Load < maxMsgs
    /\ \E roll \in values, pitch \in values, yaw \in values :
          SetProg(Issue(Prog,
                        [command |-> "head",
                         data |-> [roll |-> cover_param(roll, -171887, 171887),
                                   pitch |-> cover_param(pitch, -171887, 171887),
                                   yaw |-> cover_param(yaw, -171887, 171887)]],
                        "caller", 0))
    /\ UNCHANGED <<ws_state, fetch, reqs, probe, listeners, delivered,
                   conn,
                   camera>>

\* Human.body(squat, rotate_waist); both ranges are in hundredths.
BodyFrom(squats, waists, maxMsgs) ==
    /\ Load < maxMsgs
    /\ \E squat \in squats, rotate_waist \in waists :
          SetProg(Issue(Prog,
                        [command |-> "lower_body",
                         data |-> [squat |-> cover_param(squat, -15, 0),
                                   rotate_waist |->
                                       cover_param(rotate_waist, -1432, 1432)]],
                        "caller", 0))
    /\ UNCHANGED <<ws_state, fetch, reqs, probe, listeners, delivered,
                   conn,
                   camera>>

\* Car.move(angle, speed).  The envelope has the command of Human.walk; the
\* field robot tells the two apart and is not part of the message.
CarMoveFrom(angles, speeds, maxMsgs) ==
    /\ Load < maxMsgs
    /\ \E angle \in angles, speed \in speeds :
          SetProg(Issue(Prog,
                        [command |-> "move", robot |-> "car",
                         data |-> [angle |-> cover_param(angle, -45, 45),
                                   speed |-> cover_param(speed, -500, 500)]],
                        "caller", 0))
    /\ UNCHANGED <<ws_state, fetch, reqs, probe, listeners, delivered,
                   conn,
                   camera>>

\* Motor.enable_motor(no, orientation) and Motor.disable_motor(no,
\* orientation): command is "enable_motor" or "disable_motor".
MotorSwitch(command, nos, maxMsgs) ==
    /\ Load < maxMsgs
    /\ \E no \in nos, orientation \in {"left"} :
          IF JsGt(parseInt(no), 8)
          THEN UNCHANGED <<retry_count, timers, msgs, wire, calls, motor_limits>>
          ELSE SetProg(Issue(Prog,
                             [command |-> command,
                              data |-> [command |-> [no |-> no,
                                                     orientation |-> orientation]]],
                             "caller", 0))
    /\ UNCHANGED <<ws_state, fetch, reqs, probe, listeners, delivered,
                   conn,
                   camera>>

enable_motor(nos, maxMsgs) == MotorSwitch("enable_motor", nos, maxMsgs)
disable_motor(nos, maxMsgs) == MotorSwitch("disable_motor", nos, maxMsgs)

\* The application calls move_joint(args).
MoveJointFrom(batches, maxMsgs, maxCalls) ==
    /\ Len(calls) < maxCalls
    /\ Load < maxMsgs
    /\ \E args \in batches :
          \E s \in {[Prog EXCEPT !.calls =
                        Append(@, [args |-> args, supplied |-> args,
                                   status |-> "new",
                                   emptyAtCall |-> (Len(motor_limits) = 0)])]} :
              move_joint(s, Len(calls) + 1, "caller")
    /\ UNCHANGED <<ws_state, fetch, reqs, probe, listeners, delivered,
                   conn,
                   camera>>

\* Variant: the timer stays armed after it has fired.
RetryFire_keeptimer ==
    /\ \E i \in 1..Len(timers) :
          /\ timers[i].kind = "retry"
          /\ CanFire(i)
          /\ SetProg(websocket_send(Prog, timers[i].id, "timer"))
    /\ UNCHANGED <<ws_state, fetch, reqs, probe, listeners, delivered,
                   conn, camera>>

\* setTimeout(() => this.websocket_send(message), 1000) fires.
RetryFire ==
    /\ \E i \in 1..Len(timers) :
          /\ timers[i].kind = "retry"
          /\ CanFire(i)
          /\ \E s \in {[Prog EXCEPT !.timers = RemoveAt(@, i)]} :
                SetProg(websocket_send(s, timers[i].id, "timer"))
    /\ UNCHANGED <<ws_state, fetch, reqs, probe, listeners, delivered,
                   conn,
                   camera>>

\* Variant: the run of one deferred call cancels the timers of the others.
NotGate(t) == t.kind # "gate"

GateFire_dropothers ==
    /\ \E i \in 1..Len(timers) :
          /\ timers[i].kind = "gate"
          /\ CanFire(i)
          /\ \E s \in {[Prog EXCEPT !.timers = SelectSeq(@, NotGate),
                                     !.calls[timers[i].id].args = timers[i].args]} :
                move_joint(s, timers[i].id, "timer")
    /\ UNCHANGED <<ws_state, fetch, reqs, probe, listeners, delivered,
                   conn,
                   camera>>

\* setTimeout(() => this.move_joint(args), 500) fires.
GateFire ==
    /\ \E i \in 1..Len(timers) :
          /\ timers[i].kind = "gate"
          /\ CanFire(i)
          /\ \E s \in {[Prog EXCEPT !.timers = RemoveAt(@, i),
                                     !.calls[timers[i].id].args = timers[i].args]} :
                move_joint(s, timers[i].id, "timer")
    /\ UNCHANGED <<ws_state, fetch, reqs, probe, listeners, delivered,
                   conn,
                   camera>>

\* A facade method calls cover_param(value, name, minThreshold, maxThreshold);
\* one such call is followed.
CoverParam ==
    /\ ~probe.called
    /\ \E value \in ClampValues, lo \in ClampRange, hi \in ClampRange :
          /\ lo <= hi
          /\ probe' = [called |-> TRUE, value |-> value, min |-> lo, max |-> hi,
                       result |-> cover_param(value, lo, hi)]
    /\ UNCHANGED <<ws_state, retry_count, motor_limits, fetch, timers, msgs, wire,
                   calls, reqs, listeners, delivered, conn,
                   camera>>

\* The application calls a facade method built on http_request.
HttpCall ==
    /\ Len(reqs) < MaxReqs
    /\ \E config \in Facades :
          reqs' = Append(reqs, [config |-> http_request(config),
                                status |-> "pending", exchanges |-> 1,
                                error |-> "none", settledFor |-> "none"])
    /\ UNCHANGED <<ws_state, retry_count, motor_limits, fetch, timers, msgs, wire,
                   calls, probe, listeners, delivered, conn,
                   camera>>

\* The robot answers a pending request with a success status.
HttpRespond ==
    /\ \E i \in 1..Len(reqs) :
          /\ reqs[i].status = "pending"
          /\ reqs' = [reqs EXCEPT ![i] = http_resolved(@)]
    /\ UNCHANGED <<ws_state, retry_count, motor_limits, fetch, timers, msgs, wire,
                   calls, probe, listeners, delivered, conn,
                   camera>>

\* The robot is unreachable or answers with a failure status.
HttpFail ==
    /\ \E i \in 1..Len(reqs) :
          /\ reqs[i].status = "pending"
          /\ reqs' = [reqs EXCEPT ![i] = http_rejected(@, "failed")]
    /\ UNCHANGED <<ws_state, retry_count, motor_limits, fetch, timers, msgs, wire,
                   calls, probe, listeners, delivered, conn,
                   camera>>

\* The timeout of a pending request elapses.
HttpTimeoutFire ==
    /\ \E i \in 1..Len(reqs) :
          /\ reqs[i].status = "pending"
          /\ reqs[i].config.timeout > 0
          /\ reqs' = [reqs EXCEPT ![i] = http_rejected(@, "timeout")]
    /\ UNCHANGED <<ws_state, retry_count, motor_limits, fetch, timers, msgs, wire,
                   calls, probe, listeners, delivered, conn,
                   camera>>

FetchOk == FetchOkFrom(CoreTables)
Walk == WalkFrom(CoreWalkAngles, CoreWalkSpeeds, MaxMsgs)
MoveJoint == MoveJointFrom(CoreBatches, MaxMsgs, MaxCalls)

Next ==
    \/ FetchOk
    \/ FetchFail
    \/ WsOpen
    \/ WsClose
    \/ WsError
    \/ Walk
    \/ MoveJoint
    \/ RetryFire
    \/ GateFire

Spec == Init /\ [][Next]_vars

\* Timer callbacks that are due are eventually run by the event loop.
FairSpec == Spec /\ WF_vars(RetryFire) /\ WF_vars(GateFire)

JoinFetchOk == FetchOkFrom(Tables)
JoinWalk == WalkFrom(CoreWalkAngles, CoreWalkSpeeds, 1)
JoinMoveJoint == MoveJointFrom(Batches, 1, 1)

JoinNext ==
    \/ JoinFetchOk
    \/ FetchFail
    \/ WsOpen
    \/ WsClose
    \/ WsError
    \/ JoinWalk
    \/ JoinMoveJoint
    \/ RetryFire
    \/ GateFire

JoinSpec == Init /\ [][JoinNext]_vars

\* CtlSpec: the control requests next to the fetch, the channel and one
\* streaming send or dispatch.
CtlTables ==
    CoreTables \cup {<<Limit("1", "left", -10, 10), Limit("99", "right", -10, 10)>>}
CtlFetchOk == FetchOkFrom(CtlTables)
CtlWalk == WalkFrom(CoreWalkAngles, CoreWalkSpeeds, 1)
CtlMoveJoint == MoveJointFrom(CoreBatches, 1, 1)

CtlNext ==
    \/ HttpCall
    \/ HttpRespond
    \/ HttpFail
    \/ HttpTimeoutFire
    \/ CtlFetchOk
    \/ FetchFail
    \/ WsOpen
    \/ WsClose
    \/ WsError
    \/ CtlWalk
    \/ CtlMoveJoint
    \/ RetryFire
    \/ GateFire

CtlSpec == Init /\ [][CtlNext]_vars

\* HttpSpec: the control requests and the channel alone.
HttpNext ==
    \/ HttpCall
    \/ HttpRespond
    \/ HttpFail
    \/ HttpTimeoutFire
    \/ WsOpen
    \/ WsClose
    \/ WsError

HttpSpec == Init /\ [][HttpNext]_vars

\* The timeout of a request is a timer of the event loop: it runs when due.
FairHttpSpec == HttpSpec /\ WF_vars(HttpTimeoutFire)

\* MotionSpec: one bounded motion command of a Human or a Car, called with
\* a missing value, NaN, a number on each side of the range and its upper
\* end.
MotionInputs(lo, hi) == {Undef, NaN, Num(lo - 1), Num(hi), Num(hi + 1)}
MotionWalk == WalkFrom(MotionInputs(-45, 45), MotionInputs(-8, 8), 1)
MotionHead == HeadFrom(MotionInputs(-171887, 171887), 1)
MotionBody == BodyFrom(MotionInputs(-15, 0), MotionInputs(-1432, 1432), 1)
MotionCarMove == CarMoveFrom(MotionInputs(-45, 45), MotionInputs(-500, 500), 1)

MotionNext ==
    \/ MotionWalk
    \/ MotionHead
    \/ MotionBody
    \/ MotionCarMove
    \/ WsOpen
    \/ WsClose
    \/ WsError
    \/ RetryFire

MotionSpec == Init /\ [][MotionNext]_vars

\* UrlSpec: a robot constructed with any option, then its control requests.
Options ==
    [ssl : {"missing", "true", "false"},
     host : {"missing", "10.0.0.2"},
     port : {"missing", "8002"}]

UrlInit == \E option \in Options : InitWith(option)

UrlSpec == UrlInit /\ [][HttpNext]_vars

\* MotorSpec: motors switched on and off by number: the ends of 0-8, the
\* numbers next to them, a number of two digits and a string with no digit.
MotorNumbers ==
    {<<"0">>, <<"8">>, <<"9">>, <<"1", "0">>, <<"-", "1">>, <<"a", "b", "c">>}

EnableMotor == enable_motor(MotorNumbers, MaxMsgs)
DisableMotor == disable_motor(MotorNumbers, MaxMsgs)

MotorNext ==
    \/ EnableMotor
    \/ DisableMotor
    \/ WsOpen
    \/ WsClose
    \/ WsError
    \/ RetryFire

MotorSpec == Init /\ [][MotorNext]_vars

\* CameraSpec: a robot constructed with any option; the answer to the
\* camera's status request arrives among its control requests.
CameraNext ==
    \/ CameraRespond
    \/ CameraFail
    \/ HttpCall
    \/ HttpRespond
    \/ HttpFail
    \/ HttpTimeoutFire

CameraSpec == UrlInit /\ [][CameraNext]_vars

\* EventSpec: the listeners and the signals of the channel.
EventNext ==
    \/ on_connected
    \/ on_close
    \/ on_error
    \/ on_message
    \/ WsOpen
    \/ WsMessage
    \/ WsClose
    \/ WsError

EventSpec == Init /\ [][EventNext]_vars

ClampFetchOk == FetchOkFrom(ClampTables)
ClampWalk == WalkFrom(ClampWalkAngles, ClampWalkSpeeds, 1)
ClampMoveJoint == MoveJointFrom(ClampBatches, 1, 1)

ClampNext ==
    \/ CoverParam
    \/ ClampFetchOk
    \/ WsOpen
    \/ ClampWalk
    \/ ClampMoveJoint
    \/ RetryFire
    \/ GateFire

ClampSpec == Init /\ [][ClampNext]_vars

(***************************************************************************)
(* Vocabulary of the properties.                                           *)
(***************************************************************************)
Issued == 1..Len(msgs)
Called == 1..Len(calls)

IsJoint(m) == msgs[m].env.command = "move_joint"
OnWire(m) == \E i \in 1..Len(wire) : wire[i] = m
Pos(m) == CHOOSE i \in 1..Len(wire) : wire[i] = m
Transmissions(m) == Cardinality({i \in 1..Len(wire) : wire[i] = m})

\* Messages handed to websocket_send by move_joint call c.
MsgsOf(c) == {m \in Issued : msgs[m].call = c}

\* The limit records with the compound key of x.
Matching(x) ==
    {j \in 1..Len(motor_limits) :
        /\ motor_limits[j].no = x.no
        /\ motor_limits[j].orientation = x.orientation}

InRange(angle, lo, hi) == angle.kind = "number" /\ lo <= angle.v /\ angle.v <= hi

\* websocket_send ran for message m in the step: m is new, or its record
\* changed.
SendStep(m) ==
    /\ m \in 1..Len(msgs')
    /\ IF m > Len(msgs) THEN TRUE ELSE msgs'[m] # msgs[m]

RetryTimers(t, m) == {i \in 1..Len(t) : t[i].kind = "retry" /\ t[i].id = m}

(***************************************************************************)
(* C1.  Every entry of every move_joint envelope handed to websocket_send  *)
(* has an angle inside [min_angle, max_angle] of a limit record with its   *)
(* (no, orientation), whatever angle the caller supplied.                  *)
(* Refuted by the code: cover_param returns NaN for NaN.                   *)
(***************************************************************************)
C1_AngleWithinLimits ==
    \A m \in Issued :
        IsJoint(m) =>
            \A i \in 1..Len(msgs[m].env.data) :
                LET e == msgs[m].env.data[i]
                IN  \E j \in Matching(e) :
                        InRange(e.angle, motor_limits[j].min_angle,
                                motor_limits[j].max_angle)

(***************************************************************************)
(* C2.  Readiness gate.  While the limit cache is empty every move_joint   *)
(* call stays deferred and has handed nothing to websocket_send.  Once the *)
(* cache is non-empty a deferred call is released by its timer; when it is *)
(* released on an open channel with a target that matches, that step       *)
(* transmits exactly one move_joint message of the call, built from the    *)
(* batch the caller supplied, and no call ever produces a second one.      *)
(***************************************************************************)
HasMatch(args) == \E k \in 1..Len(args) : Matching(args[k]) # {}

BuiltFrom(data, args) ==
    /\ \A i \in 1..Len(data) :
          \E k \in 1..Len(args) :
              /\ data[i].no = args[k].no
              /\ data[i].orientation = args[k].orientation
    /\ \A k \in 1..Len(args) :
          Matching(args[k]) # {} =>
              \E i \in 1..Len(data) :
                  /\ data[i].no = args[k].no
                  /\ data[i].orientation = args[k].orientation

GateHolds ==
    Len(motor_limits) = 0 =>
        \A c \in Called : calls[c].status = "gated" /\ MsgsOf(c) = {}

OneSendPerCall ==
    \A c \in Called :
        /\ calls[c].status = "gated" => MsgsOf(c) = {}
        /\ Cardinality(MsgsOf(c)) <= 1
        /\ \A m \in MsgsOf(c) :
              /\ IsJoint(m)
              /\ Transmissions(m) <= 1
              /\ BuiltFrom(msgs[m].env.data, calls[c].args)

ReleasedOpenSendsOnce ==
    \A c \in Called :
        (/\ calls[c].status = "gated"
         /\ calls'[c].status # "gated"
         /\ ws_state = "Open"
         /\ HasMatch(calls[c].args))
            => \E m \in (Len(msgs) + 1)..Len(msgs') :
                  /\ msgs'[m].call = c
                  /\ wire' = Append(wire, m)

C2_ReadinessGate ==
    /\ [](GateHolds /\ OneSendPerCall)
    /\ [][ReleasedOpenSendsOnce]_vars
    /\ \A c \in CallIds :
          (c \in Called /\ calls[c].status = "gated" /\ Len(motor_limits) > 0)
              ~> (c \in Called /\ calls[c].status # "gated")

\* A call made on an empty cache was released and its message transmitted.
C2_Witness ==
    \E c \in Called :
        /\ calls[c].emptyAtCall
        /\ calls[c].status = "dispatched"
        /\ \E m \in MsgsOf(c) : wire = <<m>> /\ msgs[m].failed = 0

(***************************************************************************)
(* C3.  The move_joint envelope holds, in input order, exactly the targets *)
(* that have a matching limit record, each with its angle clamped into     *)
(* that record's range; the other targets are left out.                    *)
(* Refuted by the code: a NaN angle goes out as it came in (C1), and a     *)
(* target matching two records is entered twice.                           *)
(***************************************************************************)
RECURSIVE MatchedTargets(_, _)
MatchedTargets(args, i) ==
    IF i > Len(args) THEN << >>
    ELSE (IF Matching(args[i]) # {} THEN <<args[i]>> ELSE << >>)
         \o MatchedTargets(args, i + 1)

ClampedFrom(angle, target, j) ==
    LET lo == motor_limits[j].min_angle
        hi == motor_limits[j].max_angle
        given == IF target.angle.kind = "undefined" THEN Num(0) ELSE target.angle
    IN  /\ InRange(angle, lo, hi)
        /\ InRange(given, lo, hi) => angle = given
        /\ (given.kind = "number" /\ given.v < lo) => angle = Num(lo)
        /\ (given.kind = "number" /\ given.v > hi) => angle = Num(hi)

C3_JoinDropsUnmatched ==
    \A m \in Issued :
        IsJoint(m) =>
            LET data == msgs[m].env.data
                matched == MatchedTargets(calls[msgs[m].call].args, 1)
            IN  /\ Len(data) = Len(matched)
                /\ \A i \in 1..Len(data) :
                     i <= Len(matched) =>
                        /\ data[i].no = matched[i].no
                        /\ data[i].orientation = matched[i].orientation
                        /\ \E j \in Matching(matched[i]) :
                              ClampedFrom(data[i].angle, matched[i], j)

(***************************************************************************)
(* C4.  A websocket_send made while the channel is open transmits the      *)
(* message in that same call, schedules no retry, and leaves the retry     *)
(* counter at 0 whatever it was before.                                    *)
(***************************************************************************)
C4_OpenSendImmediate ==
    [][\A m \in 1..Len(msgs') :
          (SendStep(m) /\ ws_state = "Open") =>
              /\ wire' = Append(wire, m)
              /\ retry_count' = 0
              /\ \A k \in 1..Len(msgs') :
                    Cardinality(RetryTimers(timers', k))
                        <= Cardinality(RetryTimers(timers, k))]_vars

\* A message that failed first was transmitted by a later attempt, which
\* reset a counter that was not 0.
C4_Witness ==
    /\ retry_count = 0
    /\ \E m \in Issued :
          /\ wire = <<m>>
          /\ msgs[m].status = "sent"
          /\ msgs[m].failed >= 1

(***************************************************************************)
(* C5.  Claim as stated: a websocket_send made while the channel is not    *)
(* open transmits nothing, adds one to the retry counter and schedules     *)
(* exactly one retry of the same message after the fixed delay.            *)
(* It fails when the counter is already 5: the call raises instead.        *)
(***************************************************************************)
FailedAttemptEffect(m) ==
    /\ wire' = wire
    /\ retry_count' = retry_count + 1
    /\ Cardinality(RetryTimers(timers', m)) = 1
    /\ \A i \in RetryTimers(timers', m) : timers'[i].delay = RetryDelay
    /\ \A k \in 1..Len(msgs') :
          k # m => Cardinality(RetryTimers(timers', k))
                      = Cardinality(RetryTimers(timers, k))

C5_Original ==
    [][\A m \in 1..Len(msgs') :
          (SendStep(m) /\ ws_state # "Open") => FailedAttemptEffect(m)]_vars

(***************************************************************************)
(* C5, amended.  A websocket_send made while the channel is not open and   *)
(* the retry counter is below 5 transmits nothing, adds one to the retry   *)
(* counter and schedules exactly one retry of the same message after the   *)
(* fixed delay of 1000 ms.                                                 *)
(***************************************************************************)
C5_ClosedSendSchedulesRetry ==
    [][\A m \in 1..Len(msgs') :
          (SendStep(m) /\ ws_state # "Open" /\ retry_count < MaxRetry)
              => FailedAttemptEffect(m)]_vars

\* A message is waiting for its retry after a failed attempt.
C5_Witness ==
    \E m \in Issued :
        /\ msgs[m].status = "pending"
        /\ msgs[m].failed >= 1
        /\ retry_count >= 1
        /\ wire = << >>
        /\ \E i \in 1..Len(timers) :
              timers[i] = [kind |-> "retry", delay |-> RetryDelay, id |-> m]

(***************************************************************************)
(* C6.  The first send of a connection whose channel has not opened makes  *)
(* exactly 5 failed attempts, each scheduling the next, and raises on the  *)
(* 6th; nothing is scheduled for it afterwards.                            *)
(* Refuted by the code: the counter is shared by all sends (C7).           *)
(***************************************************************************)
C6_FiveAttemptsThenRaise ==
    (ws_state \in {"Connecting", "NoSocket"} /\ Len(msgs) >= 1) =>
        /\ msgs[1].status # "sent"
        /\ msgs[1].status = "pending" =>
              /\ msgs[1].failed <= MaxRetry
              /\ Cardinality(RetryTimers(timers, 1)) = 1
        /\ msgs[1].status = "abandoned" =>
              /\ msgs[1].failed = MaxRetry
              /\ RetryTimers(timers, 1) = {}

(***************************************************************************)
(* C7.  The maximum-retry error is raised for a message only after that    *)
(* message itself failed 5 attempts, however many other sends are pending. *)
(* Refuted by the code: retry_count counts the failures of all messages.   *)
(***************************************************************************)
C7_RaiseOnlyAfterOwnFive ==
    \A m \in Issued : msgs[m].status = "abandoned" => msgs[m].failed >= MaxRetry

(***************************************************************************)
(* C8.  When a send is abandoned the error is raised in the execution      *)
(* context of the caller that issued it.                                   *)
(* Refuted by the code: the throw happens inside the setTimeout callback.  *)
(***************************************************************************)
C8_ErrorRaisedToCaller ==
    \A m \in Issued : msgs[m].status = "abandoned" => msgs[m].errCtx = "caller"

(***************************************************************************)
(* C9.  Two commands both issued while the channel is open are transmitted *)
(* in the order they were issued.                                          *)
(***************************************************************************)
C9_OpenSendsInCallOrder ==
    \A a \in Issued : \A b \in Issued :
        (a < b /\ msgs[a].openAtIssue /\ msgs[b].openAtIssue) =>
            /\ OnWire(a)
            /\ OnWire(b)
            /\ Pos(a) < Pos(b)

C9_Witness ==
    \E a \in Issued : \E b \in Issued :
        /\ a < b
        /\ msgs[a].openAtIssue
        /\ msgs[b].openAtIssue
        /\ wire = <<a, b>>

(***************************************************************************)
(* C10.  Delivery is not FIFO across a channel-down period: when A was     *)
(* issued while the channel was not open and is still waiting for its      *)
(* retry when B is issued on the open channel, B is transmitted at once    *)
(* and A, if it is transmitted, comes after B.  The witness is the         *)
(* execution the claim speaks of.                                          *)
(***************************************************************************)
C10_LaterSendOvertakes ==
    \A a \in Issued : \A b \in Issued :
        (a \in msgs[b].pendingAtIssue /\ msgs[b].openAtIssue) =>
            /\ a < b
            /\ ~msgs[a].openAtIssue
            /\ OnWire(b)
            /\ OnWire(a) => Pos(b) < Pos(a)

C10_Witness ==
    \E a \in Issued : \E b \in Issued :
        /\ a < b
        /\ ~msgs[a].openAtIssue
        /\ a \in msgs[b].pendingAtIssue
        /\ msgs[b].openAtIssue
        /\ wire = <<b, a>>

(***************************************************************************)
(* C11.  For every defined value and every min <= max, cover_param returns *)
(* min when value < min, max when value > max and the value itself         *)
(* otherwise, and the result lies in [min, max].                           *)
(* Refuted by the code: NaN is a defined value, it is returned as it came  *)
(* in and lies in no range.                                                *)
(***************************************************************************)
C11_ClampContract ==
    (probe.called /\ probe.value.kind # "undefined") =>
        LET v == probe.value
            expected == IF v.kind = "number" /\ v.v < probe.min THEN Num(probe.min)
                        ELSE IF v.kind = "number" /\ v.v > probe.max
                        THEN Num(probe.max)
                        ELSE v
        IN  /\ probe.result = expected
            /\ InRange(probe.result, probe.min, probe.max)

(***************************************************************************)
(* C12.  A missing parameter is never an error.  cover_param(undefined)    *)
(* returns 0 clamped into [min, max]: 0 when min <= 0 <= max, min when     *)
(* min > 0, max when max < 0.  A move_joint call with a missing or an      *)
(* out-of-range angle is deferred or dispatched like any other, its entry  *)
(* carrying the clamped angle; walk hands websocket_send an envelope with  *)
(* both numbers in range; and no call raises to its caller.                *)
(***************************************************************************)
ZeroClamped(lo, hi) == IF lo <= 0 /\ 0 <= hi THEN 0 ELSE IF lo > 0 THEN lo ELSE hi

MissingOrOutside(angle, lo, hi) ==
    angle.kind = "undefined" \/ (angle.kind = "number" /\ (angle.v < lo \/ angle.v > hi))

C12_MissingIsNotAnError ==
    /\ (probe.called /\ probe.value = Undef) =>
            probe.result = Num(ZeroClamped(probe.min, probe.max))
    /\ \A c \in Called :
          /\ calls[c].status \in {"gated", "dispatched", "unmatched"}
          /\ \A k \in 1..Len(calls[c].args) : \A j \in Matching(calls[c].args[k]) :
                LET given == calls[c].args[k].angle
                    lo == motor_limits[j].min_angle
                    hi == motor_limits[j].max_angle
                IN  (MissingOrOutside(given, lo, hi) /\ calls[c].status # "gated") =>
                        /\ calls[c].status = "dispatched"
                        /\ \E m \in MsgsOf(c) : \E i \in 1..Len(msgs[m].env.data) :
                              /\ msgs[m].env.data[i].no = calls[c].args[k].no
                              /\ InRange(msgs[m].env.data[i].angle, lo, hi)
                              /\ given = Undef =>
                                    msgs[m].env.data[i].angle = Num(ZeroClamped(lo, hi))
    /\ \A m \in Issued :
          /\ msgs[m].errCtx # "caller"
          /\ msgs[m].env.command = "move" =>
                /\ InRange(msgs[m].env.data.angle, -45, 45)
                /\ InRange(msgs[m].env.data.speed, -8, 8)

\* cover_param was called with a missing value and a range above 0, and a
\* move_joint call with a missing angle was dispatched against a range below 0.
C12_Witness ==
    /\ probe.called
    /\ probe.value = Undef
    /\ probe.min > 0
    /\ \E c \in Called :
          /\ calls[c].args[1].angle = Undef
          /\ calls[c].status = "dispatched"
          /\ motor_limits[1].max_angle < 0
          /\ \E m \in MsgsOf(c) : msgs[m].env.data[1].angle = Num(-5)

(***************************************************************************)
(* C13.  As long as the limit cache is empty (the fetch is pending, has    *)
(* failed, or delivered an empty table) every move_joint call has returned *)
(* without raising and without sending, and is waiting for its 500 ms      *)
(* timer: each run of the timer re-arms it, so the call is never           *)
(* dispatched, never dropped and never fails, and no move_joint envelope   *)
(* exists.                                                                 *)
(***************************************************************************)
GateTimers(t, c) == {i \in 1..Len(t) : t[i].kind = "gate" /\ t[i].id = c}

C13_GateRetriesForever ==
    Len(motor_limits) = 0 =>
        /\ \A c \in Called :
              /\ calls[c].status = "gated"
              /\ Cardinality(GateTimers(timers, c)) = 1
              /\ \A i \in GateTimers(timers, c) : timers[i].delay = GateDelay
        /\ \A m \in Issued : ~IsJoint(m) /\ msgs[m].call = 0

\* The fetch failed; of two deferred calls the first has run again and
\* re-armed its timer behind the timer of the second.
C13_Witness ==
    /\ fetch.status = "failed"
    /\ Len(calls) = 2
    /\ timers = <<[kind |-> "gate", delay |-> GateDelay, id |-> 2,
                   args |-> calls[2].args],
                  [kind |-> "gate", delay |-> GateDelay, id |-> 1,
                   args |-> calls[1].args]>>

(***************************************************************************)
(* C14.  Limit fetch outcome.  The constructor returns with one fetch in   *)
(* flight and an empty cache; the fetch completes once.  When it succeeds  *)
(* the cache is exactly the table of the response; when it fails the cache *)
(* stays empty and nothing raises: a later move_joint call is deferred, a  *)
(* later send or control request proceeds as usual.                        *)
(***************************************************************************)
FetchOutcome ==
    /\ fetch.status = "pending" => motor_limits = << >>
    /\ fetch.status = "ok" => motor_limits = fetch.data
    /\ fetch.status = "failed" =>
          /\ motor_limits = << >>
          /\ \A c \in Called : calls[c].status = "gated"
          /\ \A m \in Issued : msgs[m].errCtx # "caller"

C14_FetchOutcome ==
    /\ []FetchOutcome
    /\ [][fetch.status # "pending" => fetch' = fetch]_vars

\* After the fetch failed a move_joint call was deferred and a control
\* request completed.
C14_Witness ==
    /\ fetch.status = "failed"
    /\ \E c \in Called : calls[c].status = "gated"
    /\ \E i \in 1..Len(reqs) : reqs[i].status = "resolved"

(***************************************************************************)
(* C15.  The limit cache is written at most once: it is empty until the    *)
(* construction-time fetch succeeds, the only step that changes it is that *)
(* assignment, and no move_joint call, streaming send, channel event or    *)
(* control request changes it afterwards.                                  *)
(***************************************************************************)
C15_CacheWrittenOnce ==
    /\ [](fetch.status # "ok" => motor_limits = << >>)
    /\ [][motor_limits' # motor_limits =>
            /\ motor_limits = << >>
            /\ fetch.status = "pending"
            /\ fetch'.status = "ok"]_vars

\* The cache was loaded; since then the channel opened and closed, a call
\* was dispatched and a control request completed, and the cache is the
\* fetched table.
C15_Witness ==
    /\ fetch.status = "ok"
    /\ Len(motor_limits) > 0
    /\ motor_limits = fetch.data
    /\ ws_state = "Closed"
    /\ \E c \in Called : calls[c].status = "dispatched" /\ ~calls[c].emptyAtCall
    /\ \E i \in 1..Len(reqs) : reqs[i].status # "pending"

(***************************************************************************)
(* C19.  A control request is never retried by the transport: every        *)
(* http_request call makes exactly one request/response exchange, its      *)
(* success or failure settles the promise returned to the immediate        *)
(* caller, and a settled request is never touched again.                   *)
(***************************************************************************)
Requests == 1..Len(reqs)

OneExchange ==
    \A i \in Requests :
        /\ reqs[i].exchanges = 1
        /\ reqs[i].status \in {"pending", "resolved", "rejected"}
        /\ reqs[i].status = "pending" <=> reqs[i].settledFor = "none"
        /\ reqs[i].status # "pending" => reqs[i].settledFor = "caller"
        /\ reqs[i].status = "rejected" <=> reqs[i].error \in {"failed", "timeout"}

C19_ControlRequestNotRetried ==
    /\ []OneExchange
    /\ [][\A i \in Requests : reqs[i].status # "pending" => reqs'[i] = reqs[i]]_vars

\* One request failed and was reported after a single exchange, another
\* was answered.
C19_Witness ==
    /\ \E i \in Requests :
          /\ reqs[i].status = "rejected"
          /\ reqs[i].error = "failed"
          /\ reqs[i].exchanges = 1
    /\ \E i \in Requests : reqs[i].status = "resolved"

(***************************************************************************)
(* C20.  Every control request eventually completes: each request made by  *)
(* a facade method carries the fixed timeout of 5000 ms, and a request     *)
(* whose endpoint never responds is rejected with a timeout error when the *)
(* timeout elapses instead of staying pending.                             *)
(***************************************************************************)
C20_ControlRequestCompletes ==
    /\ [](\A i \in Requests :
            /\ reqs[i].config.timeout = HttpTimeoutMs
            /\ reqs[i].config.url \in {f.url : f \in Facades})
    /\ \A i \in 1..MaxReqs :
          (i \in Requests /\ reqs[i].status = "pending")
              ~> (i \in Requests /\ reqs[i].status # "pending")

\* A request that got no answer was rejected by its timeout.
C20_Witness ==
    \E i \in Requests :
        /\ reqs[i].status = "rejected"
        /\ reqs[i].error = "timeout"
        /\ reqs[i].config.timeout = HttpTimeoutMs

(***************************************************************************)
(* C16.  A move_joint call made or released with a non-empty cache and a   *)
(* batch of which no target matches a limit record ends without sending:   *)
(* nothing is handed to websocket_send, nothing is transmitted, no retry   *)
(* is scheduled, the retry counter keeps its value, the call is not        *)
(* deferred again and no error is raised.                                  *)
(***************************************************************************)
IsRetry(t) == t.kind = "retry"

UnmatchedEndsSilently ==
    \A c \in Called :
        (calls[c].status # "gated" /\ ~HasMatch(calls[c].args)) =>
            /\ calls[c].status = "unmatched"
            /\ MsgsOf(c) = {}
            /\ GateTimers(timers, c) = {}

UnmatchedStep(c) ==
    /\ c \in 1..Len(calls')
    /\ calls'[c].status = "unmatched"
    /\ IF c \in Called THEN calls[c].status # "unmatched" ELSE TRUE

C16_UnmatchedBatchSendsNothing ==
    /\ []UnmatchedEndsSilently
    /\ [][\A c \in CallIds :
            UnmatchedStep(c) =>
                /\ msgs' = msgs
                /\ wire' = wire
                /\ retry_count' = retry_count
                /\ SelectSeq(timers', IsRetry) = SelectSeq(timers, IsRetry)]_vars

\* A call with no matching target ended while an earlier send was waiting
\* for its retry with a counter above 0.
C16_Witness ==
    /\ Len(motor_limits) > 0
    /\ retry_count >= 1
    /\ \E m \in Issued : msgs[m].status = "pending"
    /\ \E c \in Called :
          /\ calls[c].status = "unmatched"
          /\ Len(calls[c].args) >= 1

(***************************************************************************)
(* C17.  Every entry of every move_joint envelope handed to websocket_send *)
(* and of every one transmitted carries the fields no, orientation and     *)
(* angle and no other: min_angle, max_angle and ip of the limit record are *)
(* removed.                                                                *)
(***************************************************************************)
C17_EntriesCarryOnlyTargetFields ==
    \A m \in Issued :
        IsJoint(m) =>
            \A i \in 1..Len(msgs[m].env.data) :
                DOMAIN msgs[m].env.data[i] = {"no", "orientation", "angle"}

\* A transmitted envelope with two entries, built from limit records that
\* carry min_angle, max_angle and ip.
C17_Witness ==
    \E m \in Issued :
        /\ IsJoint(m)
        /\ OnWire(m)
        /\ Len(msgs[m].env.data) = 2
        /\ \A j \in 1..Len(motor_limits) :
              {"min_angle", "max_angle", "ip"} \subseteq DOMAIN motor_limits[j]

(***************************************************************************)
(* C18.  With timer callbacks run when due, every message handed to        *)
(* websocket_send ends in exactly one of two ways: it is transmitted, once,*)
(* or the maximum-retry error is raised for it.  A message waiting for a   *)
(* retry has exactly one retry timer; a message that has ended has none    *)
(* and never changes again.                                                *)
(***************************************************************************)
Ended(m) == msgs[m].status \in {"sent", "abandoned"}

SendOutcomes ==
    \A m \in Issued :
        /\ msgs[m].status \in {"pending", "sent", "abandoned"}
        /\ msgs[m].status = "pending" => Cardinality(RetryTimers(timers, m)) = 1
        /\ Ended(m) => RetryTimers(timers, m) = {}
        /\ msgs[m].status = "sent" <=> Transmissions(m) = 1
        /\ msgs[m].status = "abandoned" => Transmissions(m) = 0 /\ msgs[m].errCtx # "none"
        /\ msgs[m].status # "abandoned" => msgs[m].errCtx = "none"

C18_SendEventuallyEnds ==
    /\ []SendOutcomes
    /\ [][\A m \in Issued : Ended(m) => msgs'[m] = msgs[m]]_vars
    /\ \A m \in 1..MaxMsgs :
          (m \in Issued /\ msgs[m].status = "pending") ~> (m \in Issued /\ Ended(m))

\* One message was transmitted after failed attempts, another was given up.
C18_Witness ==
    /\ \E m \in Issued : msgs[m].status = "sent" /\ msgs[m].failed >= 1
    /\ \E m \in Issued : msgs[m].status = "abandoned"
    /\ timers = << >>

(***************************************************************************)
(* C21.  Several move_joint calls may wait on the readiness gate at once.  *)
(* Each has a timer of its own and the run of one leaves the others as     *)
(* they were; once the cache is populated each waiting call with a         *)
(* matching target hands websocket_send exactly one envelope, built from   *)
(* its own batch, and that envelope is transmitted at most once.           *)
(***************************************************************************)
EachCallOnItsOwn ==
    \A c \in Called :
        /\ calls[c].status = "gated" =>
              Cardinality(GateTimers(timers, c)) = 1 /\ MsgsOf(c) = {}
        /\ calls[c].status # "gated" => GateTimers(timers, c) = {}
        /\ calls[c].status = "dispatched" =>
              /\ HasMatch(calls[c].args)
              /\ Cardinality(MsgsOf(c)) = 1
              /\ \A m \in MsgsOf(c) :
                    /\ Transmissions(m) <= 1
                    /\ BuiltFrom(msgs[m].env.data, calls[c].args)
                    /\ Len(msgs[m].env.data)
                          = Cardinality({k \in 1..Len(calls[c].args) :
                                           Matching(calls[c].args[k]) # {}})

OthersUntouched ==
    \A c \in Called :
        (calls[c].status = "gated" /\ calls'[c].status # "gated") =>
            \A d \in Called \ {c} :
                /\ calls'[d] = calls[d]
                /\ Cardinality(GateTimers(timers', d))
                      = Cardinality(GateTimers(timers, d))
                /\ MsgsOf(d) = {m \in 1..Len(msgs') : msgs'[m].call = d}

C21_ConcurrentGatedCalls ==
    /\ []EachCallOnItsOwn
    /\ [][OthersUntouched]_vars
    /\ \A c \in CallIds :
          (/\ c \in Called
           /\ calls[c].status = "gated"
           /\ Len(motor_limits) > 0
           /\ HasMatch(calls[c].args))
              ~> (c \in Called /\ calls[c].status = "dispatched")

\* Two calls made on the empty cache, hence waiting together, were each
\* released and each transmitted an envelope of its own.
C21_Witness ==
    /\ Len(calls) = 2
    /\ calls[1].emptyAtCall /\ calls[2].emptyAtCall
    /\ calls[1].status = "dispatched" /\ calls[2].status = "dispatched"
    /\ Len(wire) = 2
    /\ \E m \in MsgsOf(1) : \E n \in MsgsOf(2) : m # n /\ OnWire(m) /\ OnWire(n)

(***************************************************************************)
(* C22.  The promise returned by move_joint is resolved only when the      *)
(* move_joint command of that call has been transmitted.                   *)
(* Refuted by the code: the promise resolves when the call returns, which  *)
(* is before the transmission when the call is deferred or the channel is  *)
(* not open, and also when nothing is ever sent.                           *)
(***************************************************************************)
C22_PromiseResolvesAfterTransmission ==
    \A c \in Called :
        move_joint_promise(c) = "resolved" => \E m \in MsgsOf(c) : OnWire(m)

(***************************************************************************)
(* C23.  Every envelope a bounded motion command hands to websocket_send   *)
(* has each scalar inside its documented range, for any input: walk angle  *)
(* in [-45, 45] and speed in [-0.8, 0.8]; head roll, pitch and yaw in      *)
(* [-17.1887, 17.1887]; body squat in [-0.15, 0] and rotate_waist in       *)
(* [-14.32, 14.32]; car angle in [-45, 45] and speed in [-500, 500].       *)
(* Refuted by the code: a NaN input goes out as NaN (C11).                 *)
(***************************************************************************)
C23_BoundedMotionInRange ==
    \A m \in Issued :
        LET e == msgs[m].env
            d == e.data
        IN  /\ (e.command = "move" /\ "robot" \notin DOMAIN e) =>
                  InRange(d.angle, -45, 45) /\ InRange(d.speed, -8, 8)
            /\ (e.command = "move" /\ "robot" \in DOMAIN e) =>
                  InRange(d.angle, -45, 45) /\ InRange(d.speed, -500, 500)
            /\ e.command = "head" =>
                  /\ InRange(d.roll, -171887, 171887)
                  /\ InRange(d.pitch, -171887, 171887)
                  /\ InRange(d.yaw, -171887, 171887)
            /\ e.command = "lower_body" =>
                  InRange(d.squat, -15, 0) /\ InRange(d.rotate_waist, -1432, 1432)

(***************************************************************************)
(* C24.  The streaming connection is the one made at construction: no step *)
(* creates a connection later or changes its address, and once the channel *)
(* has left Open it is never Open again.  The constructor catches a failed *)
(* creation, so there is one connection or none.                           *)
(***************************************************************************)
C24_ChannelNeverReopens ==
    [][/\ conn' = conn
       /\ (ws_state = "NoSocket") = (ws_state' = "NoSocket")
       /\ ws_state' = "Connecting" => ws_state = "Connecting"
       /\ ws_state' = "Open" => ws_state \in {"Connecting", "Open"}]_vars

\* The channel was open and carried a message, then closed, and a later send
\* found it closed.
C24_Witness ==
    /\ ws_state \in {"Closed", "Errored"}
    /\ \E m \in Issued : OnWire(m)
    /\ \E m \in Issued : ~OnWire(m) /\ msgs[m].failed >= 1

\* C24 as first stated: every instance has a streaming connection.
C24_ExactlyOneConnection == ws_state # "NoSocket"

(***************************************************************************)
(* C25.  Each open, close, error and message signal of the channel calls   *)
(* every listener subscribed to it at that moment exactly once, in the     *)
(* order of subscription, and calls no other listener; the calls of        *)
(* successive signals follow each other in the order of the signals, and   *)
(* no listener is called in a step without a signal.  Listeners are taken  *)
(* to return normally.                                                     *)
(***************************************************************************)
Subscribed(event) ==
    {listeners[i].id : i \in {j \in 1..Len(listeners) : listeners[j].event = event}}

SignalName(state) ==
    CASE state = "Open" -> "open"
      [] state = "Closed" -> "close"
      [] state = "Errored" -> "error"
      [] OTHER -> "none"

\* made is one call of each listener of event, in the order of subscription.
OnceEach(made, event) ==
    /\ \A k \in 1..Len(made) :
          made[k].event = event /\ made[k].listener \in Subscribed(event)
    /\ \A l \in Subscribed(event) :
          Cardinality({k \in 1..Len(made) : made[k].listener = l}) = 1
    /\ \A k1, k2 \in 1..Len(made) :
          k1 < k2 => made[k1].listener < made[k2].listener

C25_SignalsReachEachListenerOnce ==
    [][LET n == Len(delivered)
           made == SubSeq(delivered', n + 1, Len(delivered'))
       IN  /\ Len(delivered') >= n
           /\ SubSeq(delivered', 1, n) = delivered
           /\ ws_state' # ws_state => OnceEach(made, SignalName(ws_state'))
           /\ ws_state' = ws_state =>
                 \/ made = << >>
                 \/ ws_state = "Open" /\ OnceEach(made, "message")]_vars

\* Two listeners of inbound messages were both called for two messages.
C25_Witness ==
    /\ Cardinality(Subscribed("message")) = 2
    /\ Len(delivered) = 4
    /\ \A k \in 1..4 : delivered[k].event = "message"

(***************************************************************************)
(* C26.  Both URLs follow from the option: host defaults to 127.0.0.1,     *)
(* port to 8001 and ssl to false; the base URL is scheme://host:port and   *)
(* the streaming URL scheme://host:port/ws with the same host and port;    *)
(* the schemes are https and wss when ssl is true and http and ws          *)
(* otherwise, never one secure and the other not.  Every control request   *)
(* goes to the base URL.                                                   *)
(***************************************************************************)
Secure(url) == url.scheme \in {"https", "wss"}

C26_UrlsFollowOption ==
    LET o == conn.option
        host == IF o.host = "missing" THEN "127.0.0.1" ELSE o.host
        port == IF o.port = "missing" THEN "8001" ELSE o.port
    IN  /\ conn.baseUrl.host = host /\ conn.wsUrl.host = host
        /\ conn.baseUrl.port = port /\ conn.wsUrl.port = port
        /\ conn.baseUrl.path = "" /\ conn.wsUrl.path = "/ws"
        /\ conn.baseUrl.scheme = (IF o.ssl = "true" THEN "https" ELSE "http")
        /\ conn.wsUrl.scheme = (IF o.ssl = "true" THEN "wss" ELSE "ws")
        /\ Secure(conn.baseUrl) = Secure(conn.wsUrl)
        /\ \A i \in Requests : reqs[i].config.baseURL = conn.baseUrl

\* A robot built with ssl and a host of its own, the port left out, has made
\* a control request.
C26_Witness ==
    /\ conn.option = [ssl |-> "true", host |-> "10.0.0.2", port |-> "missing"]
    /\ Len(reqs) >= 1

(***************************************************************************)
(* C27.  Gate and original batch.  The timer of a deferred call holds the  *)
(* whole batch the caller supplied, same targets, angles and order, and    *)
(* every run of the call works on it; the envelope the call finally hands  *)
(* over is the one a direct dispatch of that batch against the populated   *)
(* cache produces.                                                         *)
(***************************************************************************)
DirectDispatch(args) ==
    LET joined == Join(Motors(args), motor_limits, 1)
    IN  [command |-> "move_joint",
         data |-> [i \in 1..Len(joined) |-> Sanitize(joined[i])]]

C27_GateRerunsOriginalBatch ==
    \A c \in Called :
        /\ calls[c].args = calls[c].supplied
        /\ \A i \in GateTimers(timers, c) : timers[i].args = calls[c].supplied
        /\ \A m \in MsgsOf(c) : msgs[m].env = DirectDispatch(calls[c].supplied)

\* A deferred call of two matched targets has been released and has handed
\* over an envelope with both.
C27_Witness ==
    \E c \in Called :
        /\ calls[c].emptyAtCall
        /\ calls[c].status = "dispatched"
        /\ Len(calls[c].supplied) = 2
        /\ \E m \in MsgsOf(c) : Len(msgs[m].env.data) >= 2

(***************************************************************************)
(* C28.  Empty table.  Once the limit fetch has succeeded with an empty    *)
(* table the cache stays empty for good, and move_joint treats it as not   *)
(* yet loaded: every call stays deferred with one pending 500 ms timer,    *)
(* no call completes and no move_joint envelope is handed over.            *)
(***************************************************************************)
FetchedEmpty == fetch.status = "ok" /\ fetch.data = << >>

StillDeferred ==
    /\ motor_limits = << >>
    /\ \A c \in Called :
          /\ calls[c].status = "gated"
          /\ Cardinality(GateTimers(timers, c)) = 1
    /\ \A m \in Issued : ~IsJoint(m)

C28_EmptyTableNeverLoaded ==
    /\ [](FetchedEmpty => StillDeferred)
    /\ [][FetchedEmpty => FetchedEmpty']_vars

\* The fetch returned an empty table; of two deferred calls the first has
\* polled again and found the cache still empty.
C28_Witness ==
    /\ FetchedEmpty
    /\ Len(calls) = 2
    /\ Len(timers) = 2
    /\ timers[1].kind = "gate" /\ timers[1].id = 2
    /\ timers[2].kind = "gate" /\ timers[2].id = 1

(***************************************************************************)
(* C29.  The limit cache holds at most one record per compound key         *)
(* (no, orientation), whatever table the fetch returned.                   *)
(* Refuted by the code: the table of the response is stored as it is.      *)
(***************************************************************************)
C29_OneRecordPerKey ==
    \A i, j \in 1..Len(motor_limits) :
        (/\ motor_limits[i].no = motor_limits[j].no
         /\ motor_limits[i].orientation = motor_limits[j].orientation) => i = j

(***************************************************************************)
(* C30.  enable_motor and disable_motor hand an envelope to websocket_send *)
(* only for a motor number from 0 to 8.                                    *)
(* Refuted by the code: the only test is parseInt(no) > 8, which a         *)
(* negative number and a string without digits pass.                       *)
(***************************************************************************)
IsMotorSwitch(m) == msgs[m].env.command \in {"enable_motor", "disable_motor"}

C30_MotorNumberInRange ==
    \A m \in Issued :
        IsMotorSwitch(m) =>
            LET n == parseInt(msgs[m].env.data.command.no)
            IN  n.kind = "number" /\ n.v >= 0 /\ n.v <= 8

(***************************************************************************)
(* C31.  Camera.  In every state, before and after the answer to the       *)
(* status request or its failure, videoStreamUrl is defined only if        *)
(* videoStreamStatus is true, and it is then baseUrl/control/camera; when  *)
(* the status is false or the request failed, videoStreamUrl is undefined. *)
(***************************************************************************)
C31_StreamUrlOnlyWhenStatusTrue ==
    /\ camera.videoStreamUrl # UndefinedUrl =>
          /\ camera.videoStreamStatus = "true"
          /\ camera.videoStreamUrl = [conn.baseUrl EXCEPT !.path = "/control/camera"]
    /\ camera.videoStreamStatus # "true" => camera.videoStreamUrl = UndefinedUrl
    /\ camera.request \in {"pending", "rejected"} =>
          /\ camera.videoStreamStatus = "false"
          /\ camera.videoStreamUrl = UndefinedUrl

\* The status request was answered with false while control requests went on.
C31_Witness ==
    /\ camera.request = "resolved"
    /\ camera.videoStreamStatus = "false"
    /\ Len(reqs) >= 1

(***************************************************************************)
(* C32.  The retry counter is an integer from 0 to 5 in every state,       *)
(* whatever the interleaving of sends, retry timers, channel changes and   *)
(* raised errors.                                                          *)
(***************************************************************************)
C32_RetryCounterInRange == retry_count \in 0..MaxRetry

\* The counter is at its limit, one message was abandoned with an error and
\* the retry of another is still pending.
C32_Witness ==
    /\ retry_count = MaxRetry
    /\ \E m \in Issued : msgs[m].status = "abandoned"
    /\ \E m \in Issued : RetryTimers(timers, m) # {}

(***************************************************************************)
(* C33.  No duplication.  Each message handed to websocket_send is         *)
(* transmitted at most once and has at most one pending retry timer at any *)
(* moment; a message that was transmitted or abandoned has none.           *)
(***************************************************************************)
C33_NoDuplication ==
    \A m \in Issued :
        /\ Transmissions(m) <= 1
        /\ Cardinality(RetryTimers(timers, m)) <= 1
        /\ msgs[m].status \in {"sent", "abandoned"} => RetryTimers(timers, m) = {}

\* One message went out on a retry after the channel opened; another, issued
\* after the channel had closed, waits for its retry.
C33_Witness ==
    /\ \E m \in Issued :
          msgs[m].status = "sent" /\ msgs[m].failed >= 1 /\ Transmissions(m) = 1
    /\ \E m \in Issued :
          msgs[m].status = "pending" /\ Cardinality(RetryTimers(timers, m)) = 1

(***************************************************************************)
(* C34.  The retry counter returns to 0 only in a step that transmits a    *)
(* message.  Raising the maximum-retry error happens at 5 and leaves the   *)
(* counter at 5, where it stays as long as the channel is not open; every  *)
(* websocket_send issued in that time raises on its first attempt, within  *)
(* the call that issued it, and schedules no retry.                        *)
(***************************************************************************)
Abandoned(m) == msgs[m].status = "abandoned"

C34_ExhaustionIsSticky ==
    [][/\ (retry_count # 0 /\ retry_count' = 0) => Len(wire') = Len(wire) + 1
       /\ (\E m \in 1..Len(msgs') :
               msgs'[m].status = "abandoned" /\ (m \in Issued => ~Abandoned(m)))
              => retry_count = MaxRetry /\ retry_count' = MaxRetry
       /\ (retry_count = MaxRetry /\ ws_state # "Open") =>
              /\ retry_count' = MaxRetry
              /\ \A m \in 1..Len(msgs') :
                    m \notin Issued =>
                        /\ msgs'[m].status = "abandoned"
                        /\ msgs'[m].failed = 0
                        /\ msgs'[m].errCtx # "none"
                        /\ RetryTimers(timers', m) = {}]_vars

\* After an exhaustion on a channel that never opened, a new send was refused
\* at once in the call of the application.
C34_Witness ==
    /\ ws_state = "Connecting"
    /\ retry_count = MaxRetry
    /\ \E m \in Issued : Abandoned(m) /\ msgs[m].failed >= 1
    /\ \E m \in Issued :
          Abandoned(m) /\ msgs[m].failed = 0 /\ msgs[m].errCtx = "caller"

(***************************************************************************)
(* C35.  With a channel that never returns to Open, every message is       *)
(* attempted at most 6 times in all, the first call and at most 5 retries, *)
(* even when other sends succeed and reset the counter in between.         *)
(* Refuted by the code: a reset by another send gives a pending message    *)
(* five more retries.                                                      *)
(***************************************************************************)
Attempts(m) == msgs[m].failed + (IF Ended(m) THEN 1 ELSE 0)

C35_AtMostSixAttempts == \A m \in Issued : Attempts(m) <= MaxRetry + 1

(***************************************************************************)
(* C36.  move_joint leaves its inputs alone.  After any dispatch, deferred, *)
(* sent or unmatched, the limit cache is the fetched table, every record   *)
(* with its min_angle, max_angle and ip, and the targets of the caller     *)
(* have the no, orientation and angle they were supplied with; no step     *)
(* that runs move_joint changes the cache.                                 *)
(***************************************************************************)
InputsIntact ==
    /\ fetch.status = "ok" => motor_limits = fetch.data
    /\ \A j \in 1..Len(motor_limits) :
          {"min_angle", "max_angle", "ip"} \subseteq DOMAIN motor_limits[j]
    /\ \A c \in Called :
          /\ calls[c].args = calls[c].supplied
          /\ \A k \in 1..Len(calls[c].args) :
                DOMAIN calls[c].args[k] = {"no", "orientation", "angle"}

C36_MoveJointLeavesInputs ==
    /\ []InputsIntact
    /\ [][calls' # calls => motor_limits' = motor_limits]_vars

\* A deferred call was released and its envelope has the clamped angle,
\* while the target of the caller has the angle it was given.
C36_Witness ==
    \E c \in Called :
        /\ calls[c].emptyAtCall
        /\ calls[c].status = "dispatched"
        /\ \E m \in MsgsOf(c) :
              /\ msgs[m].env.data[1].no = calls[c].supplied[1].no
              /\ msgs[m].env.data[1].angle # calls[c].supplied[1].angle

(***************************************************************************)
(* C37.  A move_joint envelope has at most one entry per target of the     *)
(* caller: it is never longer than the batch, whatever the cache holds.    *)
(* Refuted by the code: a target is pushed once for every limit record     *)
(* with its key, and the cache may hold several (C29).                     *)
(***************************************************************************)
C37_EnvelopeNoLongerThanBatch ==
    \A c \in Called :
        \A m \in MsgsOf(c) : Len(msgs[m].env.data) <= Len(calls[c].supplied)

(***************************************************************************)
(* C38.  Once the channel has left Open nothing is transmitted any more:   *)
(* with timer callbacks run when due, every send still pending and every   *)
(* send issued afterwards, a move_joint released later by the gate         *)
(* included, ends in the maximum-retry error.                              *)
(***************************************************************************)
ChannelDown == ws_state \in {"Closed", "Errored"}

C38_NothingSentAfterClose ==
    /\ [][ChannelDown => wire' = wire]_vars
    /\ \A m \in 1..MaxMsgs :
          (ChannelDown /\ m \in Issued /\ ~OnWire(m))
              ~> (m \in Issued /\ Abandoned(m))

\* A message went out while the channel was open; after the close a deferred
\* move_joint was released and its message was abandoned after retries.
C38_Witness ==
    /\ ChannelDown
    /\ \E m \in Issued : OnWire(m)
    /\ \E m \in Issued :
          /\ IsJoint(m) /\ Abandoned(m) /\ msgs[m].failed >= 1
          /\ calls[msgs[m].call].emptyAtCall

(***************************************************************************)
(* C39.  Lifecycle events are not replayed.  A listener added with         *)
(* on_connected when the channel has already opened is not called for that *)
(* open, and as the channel opens at most once it is never called; a       *)
(* listener added in time is called once.                                  *)
(***************************************************************************)
CallsOf(l) == {k \in 1..Len(delivered) : delivered[k].listener = l}

C39_OpenIsNotReplayed ==
    \A i \in 1..Len(listeners) :
        listeners[i].event = "open" =>
            /\ listeners[i].addedIn # "Connecting" => CallsOf(listeners[i].id) = {}
            /\ Cardinality(CallsOf(listeners[i].id)) <= 1

\* Of two on_connected listeners the one added before the open was called;
\* the other, added to the open channel, was not, and the channel has closed.
C39_Witness ==
    /\ ws_state = "Closed"
    /\ Len(listeners) = 2
    /\ listeners[1].event = "open" /\ listeners[1].addedIn = "Connecting"
    /\ listeners[2].event = "open" /\ listeners[2].addedIn = "Open"
    /\ delivered = <<[event |-> "open", listener |-> 1]>>

====
